---- MODULE Spec2Model ----
(***************************************************************************)
(* GoClash: the terminal battle of main.go (playGame and its helpers).     *)
(*                                                                         *)
(* The engine loop of playGame, the input-reader goroutine, the two        *)
(* tickers and the wall clock are modelled as one state machine.  The pure *)
(* helpers (parseInt, calculateDamage, applyDamage, isKingTowerDestroyed,  *)
(* simulateEnemyTurn) are operators computed as the code computes them.    *)
(* main's opponent selection, its test-mode selection loop, and            *)
(* NormaliseTag of client.go are checked under specifications of their own.*)
(*                                                                         *)
(* Conventions                                                             *)
(*   - a line of input is a sequence of one-character strings;             *)
(*   - probabilities (crit chances, rand.Float64 draws) are in hundredths; *)
(*   - elixir is float64 in the code but only ever holds 10.0 plus or      *)
(*     minus whole numbers, so it is an integer here;                      *)
(*   - time is in seconds.                                                 *)
(***************************************************************************)
EXTENDS Integers, Sequences, FiniteSets, TLC

(***************************************************************************)
(* Bounds of the model                                                     *)
(***************************************************************************)

\* battles are explored up to MaxLog resolved attacks: once the replay holds
\* that many entries the player types nothing more and the opponent-action
\* ticker delivers nothing more
MaxLog == 4

\* the wall clock is sampled every ClockStep seconds, up to MaxElapsed
ClockStep == 180

MaxElapsed == 181

\* longest tag handed to NormaliseTag
MaxTagLen == 3

(***************************************************************************)
(* Program constants                                                       *)
(***************************************************************************)

\* 3*time.Minute, in seconds
DrawLimit == 180

\* PlayerElixir: 10.0, EnemyElixir: 10.0
StartElixir == 10

\* minFloat(elixir+1.0, 10.0)
ElixirCap == 10

\* state.EnemyElixir -= 3
EnemyCost == 3

\* the opponent skips its turn when enemyElixir < 3
EnemyMinElixir == 3

(***************************************************************************)
(* Small integer helpers                                                   *)
(***************************************************************************)

\* mutant: the lower bound of 1 left out
C24_max_Second(a, b) == b

max(a, b) == IF a > b THEN a ELSE b

minFloat(a, b) == IF a < b THEN a ELSE b

\* integer quotient truncated toward zero, as Go's int(float64) conversion
TruncDiv(n, m) == IF n >= 0 THEN n \div m ELSE -((-n) \div m)

RECURSIVE Pow2Floor(_)
\* the largest power of two that is <= n, for n >= 1
Pow2Floor(n) == IF n < 2 THEN 1 ELSE 2 * Pow2Floor(n \div 2)

(***************************************************************************)
(* Card catalog                                                            *)
(***************************************************************************)

cardDatabase ==
    [n \in {"Giant", "Musketeer", "Fireball", "Archers", "Knight", "Arrows",
            "Goblin Barrel", "Minions"} |->
        CASE n = "Giant"         -> [ElixirCost |-> 5, BaseDamage |-> 140, HitPoints |-> 2500, CritChance |-> 5]
          [] n = "Musketeer"     -> [ElixirCost |-> 4, BaseDamage |-> 100, HitPoints |-> 600,  CritChance |-> 10]
          [] n = "Fireball"      -> [ElixirCost |-> 3, BaseDamage |-> 200, HitPoints |-> 0,    CritChance |-> 15]
          [] n = "Archers"       -> [ElixirCost |-> 3, BaseDamage |-> 120, HitPoints |-> 350,  CritChance |-> 8]
          [] n = "Knight"        -> [ElixirCost |-> 3, BaseDamage |-> 200, HitPoints |-> 800,  CritChance |-> 8]
          [] n = "Arrows"        -> [ElixirCost |-> 2, BaseDamage |-> 100, HitPoints |-> 0,    CritChance |-> 10]
          [] n = "Goblin Barrel" -> [ElixirCost |-> 3, BaseDamage |-> 60,  HitPoints |-> 150,  CritChance |-> 7]
          [] n = "Minions"       -> [ElixirCost |-> 3, BaseDamage |-> 70,  HitPoints |-> 200,  CritChance |-> 9]]

\* stats, exists := cardDatabase[name]; if !exists { stats = CardStats{3, 50, 100, 0.05} }
PlayerStats(name) ==
    IF name \in DOMAIN cardDatabase
    THEN cardDatabase[name]
    ELSE [ElixirCost |-> 3, BaseDamage |-> 50, HitPoints |-> 100, CritChance |-> 5]

\* the opponent's fallback leaves ElixirCost and HitPoints at their zero values
EnemyStats(name) ==
    IF name \in DOMAIN cardDatabase
    THEN cardDatabase[name]
    ELSE [ElixirCost |-> 0, BaseDamage |-> 50, HitPoints |-> 0, CritChance |-> 5]

(***************************************************************************)
(* parseInt: fmt.Sscanf(s, "%d", &n)                                       *)
(***************************************************************************)

Digits == {"0", "1", "2", "3", "4", "5", "6", "7", "8", "9"}

DigitVal(c) ==
    CASE c = "0" -> 0 [] c = "1" -> 1 [] c = "2" -> 2 [] c = "3" -> 3
      [] c = "4" -> 4 [] c = "5" -> 5 [] c = "6" -> 6 [] c = "7" -> 7
      [] c = "8" -> 8 [] c = "9" -> 9

\* unicode.IsSpace: tab, line feed, vertical tab, form feed, carriage return,
\* space, U+0085 and U+00A0, and the spaces above U+00FF, which are written
\* by their code point
IsSpace(c) ==
    c \in {"\t", "\n", "", "\f", "\r", " ", "", " ",
           "U+1680", "U+2000", "U+2001", "U+2002", "U+2003", "U+2004", "U+2005",
           "U+2006", "U+2007", "U+2008", "U+2009", "U+200A", "U+2028", "U+2029",
           "U+202F", "U+205F", "U+3000"}

RECURSIVE TrimLeft(_)
TrimLeft(s) == IF s # <<>> /\ IsSpace(Head(s)) THEN TrimLeft(Tail(s)) ELSE s

RECURSIVE TrimRight(_)
TrimRight(s) ==
    IF s # <<>> /\ IsSpace(s[Len(s)])
    THEN TrimRight(SubSeq(s, 1, Len(s) - 1))
    ELSE s

\* strings.TrimSpace
TrimSpace(s) == TrimRight(TrimLeft(s))

RECURSIVE SkipSpace(_)
\* the scanner's SkipSpace before a verb: white space is passed over, but a
\* line feed (also one after a carriage return) is an error in Sscanf
SkipSpace(s) ==
    IF s = <<>>
    THEN [rest |-> s, err |-> FALSE]
    ELSE IF Head(s) = "\n"
         THEN [rest |-> s, err |-> TRUE]
         ELSE IF IsSpace(Head(s))
              THEN SkipSpace(Tail(s))
              ELSE [rest |-> s, err |-> FALSE]

RECURSIVE ScanDigits(_)
\* the run of decimal digits at the front of s
ScanDigits(s) ==
    IF s # <<>> /\ Head(s) \in Digits
    THEN <<Head(s)>> \o ScanDigits(Tail(s))
    ELSE <<>>

RECURSIVE StripZeros(_)
StripZeros(run) ==
    IF Len(run) > 1 /\ Head(run) = "0" THEN StripZeros(Tail(run)) ELSE run

RECURSIVE DigitsLeq(_, _)
\* a <= b for two digit runs of the same length
DigitsLeq(a, b) ==
    IF a = <<>>
    THEN TRUE
    ELSE DigitVal(Head(a)) < DigitVal(Head(b))
            \/ (Head(a) = Head(b) /\ DigitsLeq(Tail(a), Tail(b)))

\* the digits of 2^63 - 1 and of 2^63, the largest magnitudes strconv.ParseInt
\* takes for a 64-bit int without and with a minus sign
MaxInt64Digits ==
    <<"9", "2", "2", "3", "3", "7", "2", "0", "3", "6",
      "8", "5", "4", "7", "7", "5", "8", "0", "7">>

MinInt64Digits ==
    <<"9", "2", "2", "3", "3", "7", "2", "0", "3", "6",
      "8", "5", "4", "7", "7", "5", "8", "0", "8">>

\* strconv.ParseInt(tok, 10, 64) reports no range error
InInt64Range(run, neg) ==
    LET r   == StripZeros(run)
        lim == IF neg THEN MinInt64Digits ELSE MaxInt64Digits
    IN  Len(r) < Len(lim) \/ (Len(r) = Len(lim) /\ DigitsLeq(r, lim))

RECURSIVE DigitsValue(_)
DigitsValue(run) ==
    IF run = <<>>
    THEN 0
    ELSE 10 * DigitsValue(SubSeq(run, 1, Len(run) - 1)) + DigitVal(run[Len(run)])

\* Sscanf with "%d": leading space skipped, an optional sign, then at least one
\* digit; whatever follows the digits is left unread and is no error. On any
\* error, a digit run out of the range of int included, n is left at 0.
parseInt(s) ==
    LET sp   == SkipSpace(s)
        t    == sp.rest
        neg  == t # <<>> /\ Head(t) = "-"
        sgn  == t # <<>> /\ Head(t) \in {"+", "-"}
        body == IF sgn THEN Tail(t) ELSE t
        run  == ScanDigits(body)
    IN  IF sp.err \/ run = <<>> \/ ~InInt64Range(run, neg)
        THEN [n |-> 0, err |-> TRUE]
        ELSE [n |-> IF neg THEN -DigitsValue(run) ELSE DigitsValue(run), err |-> FALSE]

(***************************************************************************)
(* Towers                                                                  *)
(***************************************************************************)

\* mutant: battles started with the King Tower at 1000 HP
C28_InitTowers_WeakKing ==
    << [Type |-> "Guard Tower 1", HP |-> 1000, CRIT |-> 5, MaxHP |-> 1000],
       [Type |-> "Guard Tower 2", HP |-> 1000, CRIT |-> 5, MaxHP |-> 1000],
       [Type |-> "King Tower", HP |-> 1000, CRIT |-> 10, MaxHP |-> 2000] >>

InitTowers ==
    << [Type |-> "Guard Tower 1", HP |-> 1000, CRIT |-> 5,  MaxHP |-> 1000],
       [Type |-> "Guard Tower 2", HP |-> 1000, CRIT |-> 5,  MaxHP |-> 1000],
       [Type |-> "King Tower",    HP |-> 2000, CRIT |-> 10, MaxHP |-> 2000] >>

targetOrder == <<"Guard Tower 1", "Guard Tower 2", "King Tower">>

NoTowersLeft == <<"No towers left">>

\* mutant: the test tower.HP > 0 written tower.HP >= 0
C7_DamageCandidates_ZeroStands(towers) ==
    {p \in (1..Len(targetOrder)) \X (1..Len(towers)) :
        towers[p[2]].Type = targetOrder[p[1]] /\ towers[p[2]].HP >= 0}

\* the (order, index) pairs applyDamage's nested loops would stop at
DamageCandidates(towers) ==
    {p \in (1..Len(targetOrder)) \X (1..Len(towers)) :
        towers[p[2]].Type = targetOrder[p[1]] /\ towers[p[2]].HP > 0}

\* mutant: the target order walked from its end
C6_DamageTarget_Reversed(towers) ==
    CHOOSE p \in DamageCandidates(towers) :
        \A q \in DamageCandidates(towers) :
            p[1] > q[1] \/ (p[1] = q[1] /\ p[2] >= q[2])

\* mutant: the standing tower with the most HP hit first
C32_DamageTarget_Strongest(towers) ==
    CHOOSE p \in DamageCandidates(towers) :
        \A q \in DamageCandidates(towers) :
            towers[p[2]].HP > towers[q[2]].HP
                \/ (towers[p[2]].HP = towers[q[2]].HP /\ p[2] <= q[2])

\* the first of them in loop order
DamageTarget(towers) ==
    CHOOSE p \in DamageCandidates(towers) :
        \A q \in DamageCandidates(towers) :
            p[1] < q[1] \/ (p[1] = q[1] /\ p[2] <= q[2])

\* mutant: the clamp at 0 left out
C3_applyDamage_NoClamp(towers, damage) ==
    IF DamageCandidates(towers) = {}
    THEN [towers |-> towers, result |-> NoTowersLeft]
    ELSE LET i  == DamageTarget(towers)[2]
             hp == towers[i].HP - damage
         IN  [towers |-> [towers EXCEPT ![i].HP = hp],
              result |-> <<towers[i].Type, hp>>]

\* mutant: damage beyond the target's HP passed on to the next tower
C33_applyDamage_CarriesOver(towers, damage) ==
    IF DamageCandidates(towers) = {}
    THEN [towers |-> towers, result |-> NoTowersLeft]
    ELSE LET i    == DamageTarget(towers)[2]
             hp   == IF towers[i].HP - damage < 0 THEN 0 ELSE towers[i].HP - damage
             rest == IF damage > towers[i].HP THEN damage - towers[i].HP ELSE 0
             hit  == [towers EXCEPT ![i].HP = hp]
         IN  [towers |-> IF i < Len(towers)
                         THEN [hit EXCEPT ![i + 1].HP =
                                  IF @ - rest < 0 THEN 0 ELSE @ - rest]
                         ELSE hit,
              result |-> <<towers[i].Type, hp>>]

\* applyDamage: the towers after the call and the descriptor returned
applyDamage(towers, damage) ==
    IF DamageCandidates(towers) = {}
    THEN [towers |-> towers, result |-> NoTowersLeft]
    ELSE LET i  == DamageTarget(towers)[2]
             hp == IF towers[i].HP - damage < 0 THEN 0 ELSE towers[i].HP - damage
         IN  [towers |-> [towers EXCEPT ![i].HP = hp],
              result |-> <<towers[i].Type, hp>>]

\* mutant: a destroyed King Tower never noticed
C31_isKingTowerDestroyed_Never(towers) == FALSE

\* mutant: any destroyed tower counts
C5_isKingTowerDestroyed_AnyTower(towers) ==
    \E i \in 1..Len(towers) : towers[i].HP <= 0

isKingTowerDestroyed(towers) ==
    \E i \in 1..Len(towers) : towers[i].Type = "King Tower" /\ towers[i].HP <= 0

(***************************************************************************)
(* Damage model                                                            *)
(***************************************************************************)

\* int(float64(d) * critMultiplier), critMultiplier being the float64 product
\* 1.0 [*1.5] [*1.2].  1.5 is exact; float64(1.2) is 1.2 - 2^-52/5, and d*1.2
\* rounds back to 6d/5 whenever that is whole; 1.5*1.2 is the float64
\* 1.7999999999999998 = 1.8 - 0.8*2^-52, and d times it rounds back to 9d/5
\* only when 9d/5 is whole and at most 9/8 of the power of two below it.
ScaleByCrit(d, cardCrit, towerCrit) ==
    LET a == IF d < 0 THEN -d ELSE d
        s == IF d < 0 THEN -1 ELSE 1
        n == (9 * a) \div 5
        both == IF a % 5 # 0 \/ n = 0 THEN n
                ELSE IF 8 * n <= 9 * Pow2Floor(n) THEN n ELSE n - 1
    IN  CASE cardCrit /\ towerCrit   -> s * both
          [] cardCrit /\ ~towerCrit  -> TruncDiv(3 * d, 2)
          [] ~cardCrit /\ towerCrit  -> TruncDiv(6 * d, 5)
          [] OTHER                   -> d

\* the crit chance of the first tower of the slice still standing, 0.05 otherwise
TowerCritChance(targetTowers) ==
    LET alive == {i \in 1..Len(targetTowers) : targetTowers[i].HP > 0}
    IN  IF alive = {} THEN 5
        ELSE targetTowers[CHOOSE i \in alive : \A j \in alive : i <= j].CRIT

\* mutant: a play that deals no damage
C19_calculateDamage_Zero(card, stats, targetTowers, randomFactor, r1, r2) ==
    [damage |-> 0, cardCrit |-> FALSE, towerCrit |-> FALSE]

\* calculateDamage, with its three random draws as arguments:
\* randomFactor = rand.Intn(21) - 10, r1 and r2 = rand.Float64() in hundredths
calculateDamage(card, stats, targetTowers, randomFactor, r1, r2) ==
    LET damage    == stats.BaseDamage + (card.Level - 1) * 10
        cardCrit  == r1 < stats.CritChance
        towerCrit == r2 < TowerCritChance(targetTowers)
        total     == ScaleByCrit(damage + randomFactor, cardCrit, towerCrit)
    IN  [damage |-> max(1, total), cardCrit |-> cardCrit, towerCrit |-> towerCrit]

critText(cardCrit, towerCrit) ==
    IF cardCrit /\ towerCrit THEN " (Double CRIT)"
    ELSE IF cardCrit THEN " (Card CRIT)"
    ELSE IF towerCrit THEN " (Tower CRIT)"
    ELSE ""

\* mutant: a policy that always skips its turn
C21_simulateEnemyTurn_AlwaysSkips(deck, enemyElixir, opponentName, targetTowers, pick, randomFactor, r1, r2) ==
    [damage |-> 0, cardCrit |-> FALSE, towerCrit |-> FALSE,
     action |-> <<opponentName, "skipped turn (not enough elixir)">>]

\* mutant: a policy that plays whatever its elixir
C22_simulateEnemyTurn_NeverShort(deck, enemyElixir, opponentName, targetTowers, pick, randomFactor, r1, r2) ==
    IF Len(deck) = 0
    THEN [damage |-> 0, cardCrit |-> FALSE, towerCrit |-> FALSE,
          action |-> <<opponentName, "skipped turn (not enough elixir)">>]
    ELSE LET card == deck[pick]
             d    == calculateDamage(card, EnemyStats(card.Name), targetTowers,
                                     randomFactor, r1, r2)
         IN  [damage |-> d.damage, cardCrit |-> d.cardCrit, towerCrit |-> d.towerCrit,
              action |-> <<opponentName, "used", card.Name, card.Level>>]

\* simulateEnemyTurn, with the index drawn by rand.Intn(len(deck)) and the
\* draws of calculateDamage as arguments
simulateEnemyTurn(deck, enemyElixir, opponentName, targetTowers, pick, randomFactor, r1, r2) ==
    IF enemyElixir < EnemyMinElixir \/ Len(deck) = 0
    THEN [damage |-> 0, cardCrit |-> FALSE, towerCrit |-> FALSE,
          action |-> <<opponentName, "skipped turn (not enough elixir)">>]
    ELSE LET card == deck[pick]
             d    == calculateDamage(card, EnemyStats(card.Name), targetTowers,
                                     randomFactor, r1, r2)
         IN  [damage |-> d.damage, cardCrit |-> d.cardCrit, towerCrit |-> d.towerCrit,
              action |-> <<opponentName, "used", card.Name, card.Level>>]

(***************************************************************************)
(* Inputs of a battle                                                      *)
(***************************************************************************)

\* player.CurrentDeck: a catalog card, a dearer one, and one the catalog lacks
PlayerDeck ==
    << [Name |-> "Knight", Level |-> 181],
       [Name |-> "Giant",  Level |-> 187],
       [Name |-> "Wizard", Level |-> 196] >>

\* the deck of the mock opponent of test mode
MockDeck == << [Name |-> "Fireball", Level |-> 181] >>

\* the mock players of player.json: the player's own entry, an opponent with
\* a deck and an opponent whose deck is empty
MockMe == [Tag |-> "#PLAYER1", Name |-> "Me", Trophies |-> 3000, CurrentDeck |-> PlayerDeck]

MockOther == [Tag |-> "#PLAYER2", Name |-> "Mock", Trophies |-> 3100, CurrentDeck |-> MockDeck]

MockNoDeck == [Tag |-> "#PLAYER3", Name |-> "Empty", Trophies |-> 2900, CurrentDeck |-> <<>>]

\* var opponent interface{}: nil until a selection assigns it
NilOpponent == [kind |-> "nil", CurrentDeck |-> <<>>]

\* the opponent a live mode selects, if its collaborator call gave one:
\* in.fetch is the outcome of the mode's first call ("err", "empty" or "ok"),
\* in.search that of the tournament search ("err", "empty", "noMembers", "ok")
LiveOpponent(in) ==
    CASE in.mode = "1" ->
            IF in.clanTag # "" /\ in.fetch = "ok"
            THEN [opponent |-> [kind |-> "ClanMember", CurrentDeck |-> <<>>],
                  opponentName |-> "Member", opponentTrophies |-> 4200]
            ELSE [opponent |-> NilOpponent, opponentName |-> "", opponentTrophies |-> 0]
      [] in.mode = "2" ->
            IF in.tournamentInput # "" /\ (in.fetch = "ok" \/ in.search = "ok")
            THEN [opponent |-> [kind |-> "TournamentMember", CurrentDeck |-> <<>>],
                  opponentName |-> "Entrant", opponentTrophies |-> 77]
            ELSE [opponent |-> NilOpponent, opponentName |-> "", opponentTrophies |-> 0]
      [] in.mode = "3" ->
            IF in.fetch = "ok"
            THEN [opponent |-> [kind |-> "PlayerRanking", CurrentDeck |-> <<>>],
                  opponentName |-> "Ranked", opponentTrophies |-> 8000]
            ELSE [opponent |-> NilOpponent, opponentName |-> "", opponentTrophies |-> 0]
      [] in.mode = "4" ->
            IF in.clanTag # "" /\ in.fetch = "ok"
            THEN [opponent |-> [kind |-> "WarParticipant", CurrentDeck |-> <<>>],
                  opponentName |-> "Warrior", opponentTrophies |-> 0]
            ELSE [opponent |-> NilOpponent, opponentName |-> "", opponentTrophies |-> 0]
      [] OTHER ->
            [opponent |-> NilOpponent, opponentName |-> "", opponentTrophies |-> 0]

\* mutant: the selection without its final default
C30_selectOpponent_NoDefault(in) ==
    IF in.isTestMode
    THEN IF Len(in.mockPlayers) > 1
         THEN LET o == in.mockPlayers[in.pick]
              IN  [opponent |-> [kind |-> "MockPlayer", CurrentDeck |-> o.CurrentDeck],
                   opponentName |-> o.Name, opponentTrophies |-> o.Trophies]
         ELSE [opponent |-> NilOpponent, opponentName |-> "Default Enemy",
               opponentTrophies |-> 1000]
    ELSE LiveOpponent(in)

\* mutant: a clan member selected in every mode
C37_selectOpponent_ClanMember(in) == [opponent |-> [kind |-> "ClanMember", CurrentDeck |-> <<>>], opponentName |-> "Member", opponentTrophies |-> 4200]

\* main's opponent selection: in.pick is the index rand.Intn draws in the
\* test-mode loop when it ends (a mock player other than the player)
selectOpponent(in) ==
    LET sel == IF in.isTestMode
               THEN IF Len(in.mockPlayers) > 1
                    THEN LET o == in.mockPlayers[in.pick]
                         IN  [opponent |-> [kind |-> "MockPlayer",
                                            CurrentDeck |-> o.CurrentDeck],
                              opponentName |-> o.Name, opponentTrophies |-> o.Trophies]
                    ELSE [opponent |-> NilOpponent, opponentName |-> "Default Enemy",
                          opponentTrophies |-> 1000]
               ELSE LiveOpponent(in)
    IN  IF sel.opponent = NilOpponent
        THEN [opponent |-> NilOpponent, opponentName |-> "Default Enemy",
              opponentTrophies |-> 1000]
        ELSE sel

\* a game-mode selection in test mode and one in live mode
TestSelection(mockPlayers) ==
    [isTestMode |-> TRUE, mode |-> "1", mockPlayers |-> mockPlayers, pick |-> 2,
     clanTag |-> "", fetch |-> "err", tournamentInput |-> "", search |-> "err"]

LiveSelection(mode, clanTag, fetch, tournamentInput, search) ==
    [isTestMode |-> FALSE, mode |-> mode, mockPlayers |-> <<>>, pick |-> 1,
     clanTag |-> clanTag, fetch |-> fetch, tournamentInput |-> tournamentInput,
     search |-> search]

\* the selections whose battles are explored: a mock opponent, a lone mock
\* player, a clan member, a mock opponent without cards, an invalid mode
BattleSelections ==
    { TestSelection(<<MockMe, MockOther>>),
      TestSelection(<<MockMe>>),
      LiveSelection("1", "#CLAN", "ok", "", "err"),
      TestSelection(<<MockMe, MockNoDeck>>),
      LiveSelection("5", "#CLAN", "ok", "", "err") }

\* what main hands to playGame as (isTestMode, opponent, opponentName)
Scenarios ==
    { [isTestMode |-> in.isTestMode, opponent |-> selectOpponent(in).opponent,
       opponentName |-> selectOpponent(in).opponentName] : in \in BattleSelections }

\* lines the player may type
LineSet ==
    { <<"0">>, <<" ", "1">>, <<"2", "x">>, <<"3">>, <<"4">>, <<"x">>,
      <<"0", "\r">>, <<"\f", "1">> }

\* the random draws of one calculateDamage call that are explored:
\* <<rand.Intn(21) - 10, rand.Float64(), rand.Float64()>>, the last two in
\* hundredths.  0 is below every crit chance, 50 above every one, and 9 is
\* below the King Tower's 0.10 but not below a Guard Tower's 0.05.
DrawSet == { <<-10, 50, 50>>, <<10, 0, 50>>, <<0, 50, 9>>, <<-10, 0, 0>> }

(***************************************************************************)
(* State                                                                   *)
(***************************************************************************)

VARIABLES
    isTestMode,       \* playGame's argument
    opponent,         \* playGame's argument (interface{})
    opponentName,     \* playGame's argument
    state,            \* GameState
    replay,           \* ReplayData.Actions
    pc,               \* the engine: "select" (in the loop) or "returned"
    outcome,          \* which return of playGame was taken; "Running" before
    reader,           \* the input goroutine: [pc, input]
    elixirTick,       \* [stopped]: a tick is deliverable while not stopped
    enemyActionTick,  \* [stopped]: likewise
    elapsed,          \* time.Since(startTime), seconds
    call              \* a helper applied on its own: [op, done, arguments, out]

vars == << isTestMode, opponent, opponentName, state, replay, pc, outcome,
           reader, elixirTick, enemyActionTick, elapsed, call >>

\* the state playGame builds before its loop
InitBattle ==
    /\ \E sc \in Scenarios :
          /\ isTestMode = sc.isTestMode
          /\ opponent = sc.opponent
          /\ opponentName = sc.opponentName
    /\ state = [PlayerTowers |-> InitTowers, EnemyTowers |-> InitTowers,
                PlayerElixir |-> StartElixir, EnemyElixir |-> StartElixir]
    /\ replay = <<>>
    /\ pc = "select"
    /\ outcome = "Running"
    /\ reader = [pc |-> "scan", input |-> <<>>]
    /\ elixirTick = [stopped |-> FALSE]
    /\ enemyActionTick = [stopped |-> FALSE]
    /\ elapsed = 0

Init ==
    /\ InitBattle
    /\ call = [op |-> "none", done |-> TRUE]

(***************************************************************************)
(* The input goroutine                                                     *)
(***************************************************************************)

\* mutant: the goroutine writing the line it read into the log
C14_ReaderScan_WritesLog ==
    /\ reader.pc = "scan"
    /\ Len(replay) < MaxLog
    /\ \E line \in LineSet :
          /\ reader' = [pc |-> "sendInput", input |-> TrimSpace(line)]
          /\ replay' = Append(replay, "Player used")
    /\ UNCHANGED << isTestMode, opponent, opponentName, state, pc, outcome,
                    elixirTick, enemyActionTick, elapsed, call >>

\* scanner.Scan() returns a line; input := strings.TrimSpace(scanner.Text())
ReaderScan ==
    /\ reader.pc = "scan"
    /\ Len(replay) < MaxLog
    /\ \E line \in LineSet : reader' = [pc |-> "sendInput", input |-> TrimSpace(line)]
    /\ UNCHANGED << isTestMode, opponent, opponentName, state, replay, pc, outcome,
                    elixirTick, enemyActionTick, elapsed, call >>

\* scanner.Scan() returns false: the goroutine ends
ReaderEOF ==
    /\ reader.pc = "scan"
    /\ reader' = [pc |-> "done", input |-> <<>>]
    /\ UNCHANGED << isTestMode, opponent, opponentName, state, replay, pc, outcome,
                    elixirTick, enemyActionTick, elapsed, call >>

\* mutant: the goroutine offering the same line again after its send
C15_AfterInputSent_Resend(r) == r

\* mutant: the goroutine reading the next line after every send
C35_AfterInputSent_KeepsScanning(r) == [pc |-> "scan", input |-> <<>>]

\* the goroutine after its send on inputChan completed
AfterInputSent(r) ==
    IF r.input = <<"0">>
    THEN [pc |-> "sendQuit", input |-> r.input]
    ELSE [pc |-> "scan", input |-> <<>>]

(***************************************************************************)
(* The clock                                                               *)
(***************************************************************************)

\* the engine's reading of time.Since(startTime) grows while the loop runs
AdvanceClock ==
    /\ pc = "select"
    /\ elapsed < MaxElapsed
    /\ elapsed' = minFloat(elapsed + ClockStep, MaxElapsed)
    /\ UNCHANGED << isTestMode, opponent, opponentName, state, replay, pc, outcome,
                    reader, elixirTick, enemyActionTick, call >>

(***************************************************************************)
(* The engine loop                                                         *)
(***************************************************************************)

\* mutant: a return that leaves the opponent-action ticker running
C12_Return_TickerLeftRunning(log, result) ==
    /\ replay' = log
    /\ outcome' = result
    /\ pc' = "returned"
    /\ elixirTick' = [elixirTick EXCEPT !.stopped = TRUE]
    /\ UNCHANGED enemyActionTick

\* a return of playGame: elixirTick.Stop(), enemyActionTick.Stop(), return replay
Return(log, result) ==
    /\ replay' = log
    /\ outcome' = result
    /\ pc' = "returned"
    /\ elixirTick' = [elixirTick EXCEPT !.stopped = TRUE]
    /\ enemyActionTick' = [enemyActionTick EXCEPT !.stopped = TRUE]

\* mutant: the draw check left out
C1_DrawDue_Never == FALSE

\* mutant: the limit taken one second too long
C9_DrawDue_Late == elapsed > DrawLimit + 1

\* the check after the select: time.Since(startTime) > 3*time.Minute
DrawDue == elapsed > DrawLimit

\* mutant: the draw returned without its log entry
C2_DrawCheck_NoEntry(log) ==
    IF DrawDue
    THEN Return(log, "Draw")
    ELSE /\ replay' = log
         /\ UNCHANGED << pc, outcome, elixirTick, enemyActionTick >>

\* mutant: the draw entry put in front of the log
C16_DrawCheck_Prepends(log) ==
    IF DrawDue
    THEN Return(<<"Match ended in a draw">> \o log, "Draw")
    ELSE /\ replay' = log
         /\ UNCHANGED << pc, outcome, elixirTick, enemyActionTick >>

\* the end of a loop iteration that fell through the select
DrawCheck(log) ==
    IF DrawDue
    THEN Return(Append(log, "Match ended in a draw"), "Draw")
    ELSE /\ replay' = log
         /\ UNCHANGED << pc, outcome, elixirTick, enemyActionTick >>

\* mutant: a rejected line falling through to the draw check
C17_Continue_RunsDrawCheck ==
    /\ UNCHANGED state
    /\ DrawCheck(replay)

\* an iteration ended by "continue": back to the select, past the draw check
Continue ==
    UNCHANGED << state, replay, pc, outcome, elixirTick, enemyActionTick >>

\* mutant: a surrender that also empties the opponent's elixir
C13_EngineSurrender_TouchesElixir ==
    /\ pc = "select"
    /\ reader.pc = "sendQuit"
    /\ reader' = [pc |-> "done", input |-> <<>>]
    /\ Return(Append(replay, "Player surrendered"), "Surrender")
    /\ state' = [state EXCEPT !.EnemyElixir = 0]
    /\ UNCHANGED << isTestMode, opponent, opponentName, elapsed, call >>

\* mutant: the time limit checked before the surrender is honoured
C34_EngineSurrender_DrawFirst ==
    /\ pc = "select"
    /\ reader.pc = "sendQuit"
    /\ reader' = [pc |-> "done", input |-> <<>>]
    /\ IF DrawDue
       THEN Return(Append(replay, "Match ended in a draw"), "Draw")
       ELSE Return(Append(replay, "Player surrendered"), "Surrender")
    /\ UNCHANGED << isTestMode, opponent, opponentName, state, elapsed, call >>

\* case <-quitChan
EngineSurrender ==
    /\ pc = "select"
    /\ reader.pc = "sendQuit"
    /\ reader' = [pc |-> "done", input |-> <<>>]
    /\ Return(Append(replay, "Player surrendered"), "Surrender")
    /\ UNCHANGED << isTestMode, opponent, opponentName, state, elapsed, call >>

\* err != nil || choice < 1 || choice > len(player.CurrentDeck)
InvalidChoice(input) ==
    LET p == parseInt(input)
    IN  p.err \/ p.n < 1 \/ p.n > Len(PlayerDeck)

\* mutant: the elixir check left out
C4_NotEnoughElixir_Off(stats, st) == FALSE

\* mutant: a card played with one elixir missing
C18_NotEnoughElixir_OffByOne(stats, st) == stats.ElixirCost > st.PlayerElixir + 1

\* float64(stats.ElixirCost) > state.PlayerElixir
NotEnoughElixir(stats, st) == stats.ElixirCost > st.PlayerElixir

\* case input := <-inputChan
EngineInput ==
    /\ pc = "select"
    /\ reader.pc = "sendInput"
    /\ reader' = AfterInputSent(reader)
    /\ UNCHANGED << isTestMode, opponent, opponentName, elapsed, call >>
    /\ IF InvalidChoice(reader.input)
       THEN Continue
       ELSE LET selectedCard == PlayerDeck[parseInt(reader.input).n]
                stats        == PlayerStats(selectedCard.Name)
            IN  IF NotEnoughElixir(stats, state)
                THEN Continue
                ELSE \E draw \in DrawSet :
                        LET d   == calculateDamage(selectedCard, stats, state.EnemyTowers,
                                                   draw[1], draw[2], draw[3])
                            hit == applyDamage(state.EnemyTowers, d.damage)
                            log == Append(replay, "Player used")
                        IN  /\ state' = [state EXCEPT
                                            !.EnemyTowers = hit.towers,
                                            !.PlayerElixir = @ - stats.ElixirCost]
                            /\ IF isKingTowerDestroyed(hit.towers)
                               THEN Return(Append(log, "Player won the match"), "PlayerWin")
                               ELSE DrawCheck(log)

\* mutant: a tick that regenerates the player's elixir only
C20_EngineRegen_PlayerOnly ==
    /\ pc = "select"
    /\ ~elixirTick.stopped
    /\ state' = [state EXCEPT !.PlayerElixir = minFloat(@ + 1, ElixirCap)]
    /\ DrawCheck(replay)
    /\ UNCHANGED << isTestMode, opponent, opponentName, reader, elapsed, call >>

\* mutant: a tick worth two elixir
C36_EngineRegen_Double ==
    /\ pc = "select"
    /\ ~elixirTick.stopped
    /\ state' = [state EXCEPT
                    !.PlayerElixir = minFloat(@ + 2, ElixirCap),
                    !.EnemyElixir = minFloat(@ + 2, ElixirCap)]
    /\ DrawCheck(replay)
    /\ UNCHANGED << isTestMode, opponent, opponentName, reader, elapsed, call >>

\* case <-elixirTick.C
EngineRegen ==
    /\ pc = "select"
    /\ ~elixirTick.stopped
    /\ state' = [state EXCEPT
                    !.PlayerElixir = minFloat(@ + 1, ElixirCap),
                    !.EnemyElixir = minFloat(@ + 1, ElixirCap)]
    /\ DrawCheck(replay)
    /\ UNCHANGED << isTestMode, opponent, opponentName, reader, elapsed, call >>

\* isTestMode && opponent != nil: the branch that evaluates opponent.(MockPlayer)
AssertsMockPlayer(testMode, opp) == testMode /\ opp.kind # "nil"

\* opponent.(MockPlayer) panics when the dynamic type is not MockPlayer
AssertionFails(testMode, opp) ==
    AssertsMockPlayer(testMode, opp) /\ opp.kind # "MockPlayer"

\* mutant: every opponent given the player's deck
C29_EnemyDeck_AlwaysPlayers(testMode, opp) == PlayerDeck

\* enemyDeck: opponent.(MockPlayer).CurrentDeck in test mode with an opponent,
\* player.CurrentDeck otherwise
EnemyDeck(testMode, opp) ==
    IF testMode /\ opp.kind # "nil"
    THEN opp.CurrentDeck
    ELSE PlayerDeck

\* mutant: the opponent charged the listed cost of the card it drew
C23_EngineEnemy_ListedCost ==
    /\ pc = "select"
    /\ ~enemyActionTick.stopped
    /\ Len(replay) < MaxLog
    /\ UNCHANGED << isTestMode, opponent, opponentName, reader, elapsed, call >>
    /\ IF isKingTowerDestroyed(state.PlayerTowers)
       THEN /\ UNCHANGED state
            /\ DrawCheck(replay)
       ELSE LET enemyDeck == EnemyDeck(isTestMode, opponent)
            IN  \E pick \in 1..max(1, Len(enemyDeck)), draw \in DrawSet :
                   LET t   == simulateEnemyTurn(enemyDeck, state.EnemyElixir, opponentName,
                                                state.PlayerTowers, pick,
                                                draw[1], draw[2], draw[3])
                       hit == applyDamage(state.PlayerTowers, t.damage)
                       towers == IF t.damage > 0 THEN hit.towers ELSE state.PlayerTowers
                       log == IF t.damage > 0 THEN Append(replay, "Opponent used")
                                              ELSE replay
                   IN  /\ state' = IF t.damage > 0
                                   THEN [state EXCEPT !.PlayerTowers = hit.towers,
                                                      !.EnemyElixir =
                                                         @ - EnemyStats(enemyDeck[pick].Name).ElixirCost]
                                   ELSE state
                       /\ IF isKingTowerDestroyed(towers)
                          THEN Return(Append(log, "Opponent won the match"), "OpponentWin")
                          ELSE DrawCheck(log)

\* case <-enemyActionTick.C
EngineEnemy ==
    /\ pc = "select"
    /\ ~enemyActionTick.stopped
    /\ Len(replay) < MaxLog
    /\ UNCHANGED << isTestMode, opponent, opponentName, reader, elapsed, call >>
    /\ IF isKingTowerDestroyed(state.PlayerTowers)
       THEN /\ UNCHANGED state
            /\ DrawCheck(replay)
       ELSE LET enemyDeck == EnemyDeck(isTestMode, opponent)
            IN  \E pick \in 1..max(1, Len(enemyDeck)), draw \in DrawSet :
                   LET t   == simulateEnemyTurn(enemyDeck, state.EnemyElixir, opponentName,
                                                state.PlayerTowers, pick,
                                                draw[1], draw[2], draw[3])
                       hit == applyDamage(state.PlayerTowers, t.damage)
                       towers == IF t.damage > 0 THEN hit.towers ELSE state.PlayerTowers
                       log == IF t.damage > 0 THEN Append(replay, "Opponent used")
                                              ELSE replay
                   IN  /\ state' = IF t.damage > 0
                                   THEN [state EXCEPT !.PlayerTowers = hit.towers,
                                                      !.EnemyElixir = @ - EnemyCost]
                                   ELSE state
                       /\ IF isKingTowerDestroyed(towers)
                          THEN Return(Append(log, "Opponent won the match"), "OpponentWin")
                          ELSE DrawCheck(log)

Next ==
    \/ ReaderScan
    \/ ReaderEOF
    \/ AdvanceClock
    \/ EngineSurrender
    \/ EngineInput
    \/ EngineRegen
    \/ EngineEnemy

Spec == Init /\ [][Next]_vars

\* the battle under the fairness its scheduling gives: the clock advances, and
\* a regeneration tick that stays deliverable is eventually taken by the select
LiveSpec == Init /\ [][Next]_vars /\ WF_vars(AdvanceClock) /\ WF_vars(EngineRegen)

(***************************************************************************)
(* The helpers applied on their own                                        *)
(***************************************************************************)

HelperTowers(h1, h2, h3) ==
    [InitTowers EXCEPT ![1].HP = h1, ![2].HP = h2, ![3].HP = h3]

\* tower HP a side can show: towers fall in order, each from its full HP
GuardHPSet == {1000, 800, 200, 1}

KingHPSet == {2000, 1700, 300, 1, 0}

TowerStates ==
    {HelperTowers(h, 1000, 2000) : h \in GuardHPSet}
        \cup {HelperTowers(0, h, 2000) : h \in GuardHPSet}
        \cup {HelperTowers(0, 0, h) : h \in KingHPSet}

DamageSet == {1, 100, 200, 300, 800, 1000, 1700, 2000, 2500}

\* arguments of calculateDamage: cards of the catalog and one it lacks, at
\* levels that make base + jitter negative, small and large; the jitter at its
\* ends and at 0; draws below and above each crit chance (hundredths)
CardSet ==
    {[Name |-> n, Level |-> l] : n \in {"Musketeer", "Knight", "Wizard"}, l \in {-5, 1, 14}}

JitterSet == {-10, 0, 10}

CardRollSet == {0, 50}

TowerRollSet == {0, 7, 50}

DefendingTowers ==
    {InitTowers, HelperTowers(0, 1000, 2000), HelperTowers(0, 0, 2000),
     HelperTowers(0, 0, 0)}

\* game-mode selections: test mode with one or two mock players, and each
\* live mode with every outcome of its collaborator calls
SelectionSet ==
    {TestSelection(m) : m \in {<<MockMe>>, <<MockMe, MockOther>>,
                               <<MockMe, MockNoDeck>>}}
        \cup {LiveSelection(mode, clanTag, fetch, tournamentInput, search) :
                mode \in {"1", "2", "3", "4", "5"}, clanTag \in {"", "#CLAN"},
                fetch \in {"err", "empty", "ok"}, tournamentInput \in {"", "#T"},
                search \in {"err", "empty", "noMembers", "ok"}}

\* mutant: the prefix added to every tag
C39_NormaliseTag_AlwaysPrefixes(tag) == <<"#">> \o tag

\* NormaliseTag, a tag being the sequence of its characters
NormaliseTag(tag) ==
    IF Len(tag) > 0 /\ tag[1] = "#"
    THEN tag
    ELSE <<"#">> \o tag

\* characters of a tag: the prefix, a letter, a digit
TagChars == {"#", "A", "2"}

\* the tags of at most n characters
RECURSIVE TagsUpTo(_)
TagsUpTo(n) ==
    IF n = 0
    THEN {<<>>}
    ELSE TagsUpTo(n - 1) \cup
            {Append(t, c) : t \in {u \in TagsUpTo(n - 1) : Len(u) = n - 1}, c \in TagChars}

TagSet == TagsUpTo(MaxTagLen)

InitFn ==
    /\ InitBattle
    /\ \/ \E towers \in TowerStates, damage \in DamageSet :
             call = [op |-> "applyDamage", done |-> FALSE, towers |-> towers,
                     damage |-> damage, out |-> [towers |-> <<>>, result |-> <<>>]]
       \/ \E card \in CardSet, targetTowers \in DefendingTowers,
             randomFactor \in JitterSet, r1 \in CardRollSet, r2 \in TowerRollSet :
             call = [op |-> "calculateDamage", done |-> FALSE, card |-> card,
                     stats |-> PlayerStats(card.Name), targetTowers |-> targetTowers,
                     randomFactor |-> randomFactor, r1 |-> r1, r2 |-> r2,
                     out |-> [damage |-> 0, cardCrit |-> FALSE, towerCrit |-> FALSE]]
       \/ \E in \in SelectionSet :
             call = [op |-> "selectOpponent", done |-> FALSE, in |-> in,
                     out |-> [opponent |-> NilOpponent, opponentName |-> "",
                              opponentTrophies |-> 0]]
       \/ \E tag \in TagSet :
             call = [op |-> "NormaliseTag", done |-> FALSE, tag |-> tag, out |-> <<>>]

CallApplyDamage ==
    /\ call.op = "applyDamage"
    /\ ~call.done
    /\ call' = [call EXCEPT !.done = TRUE,
                            !.out = applyDamage(call.towers, call.damage)]
    /\ UNCHANGED << isTestMode, opponent, opponentName, state, replay, pc, outcome,
                    reader, elixirTick, enemyActionTick, elapsed >>

CallCalculateDamage ==
    /\ call.op = "calculateDamage"
    /\ ~call.done
    /\ call' = [call EXCEPT !.done = TRUE,
                            !.out = calculateDamage(call.card, call.stats,
                                                    call.targetTowers, call.randomFactor,
                                                    call.r1, call.r2)]
    /\ UNCHANGED << isTestMode, opponent, opponentName, state, replay, pc, outcome,
                    reader, elixirTick, enemyActionTick, elapsed >>

CallSelectOpponent ==
    /\ call.op = "selectOpponent"
    /\ ~call.done
    /\ call' = [call EXCEPT !.done = TRUE, !.out = selectOpponent(call.in)]
    /\ UNCHANGED << isTestMode, opponent, opponentName, state, replay, pc, outcome,
                    reader, elixirTick, enemyActionTick, elapsed >>

CallNormaliseTag ==
    /\ call.op = "NormaliseTag"
    /\ ~call.done
    /\ call' = [call EXCEPT !.done = TRUE, !.out = NormaliseTag(call.tag)]
    /\ UNCHANGED << isTestMode, opponent, opponentName, state, replay, pc, outcome,
                    reader, elixirTick, enemyActionTick, elapsed >>

NextFn ==
    \/ CallApplyDamage
    \/ CallCalculateDamage
    \/ CallSelectOpponent
    \/ CallNormaliseTag

SpecFn == InitFn /\ [][NextFn]_vars

(***************************************************************************)
(* The opponent selection loop of test mode                                *)
(***************************************************************************)

\* a second entry of player.json carrying the player's tag
MockTwin == [Tag |-> "#PLAYER1", Name |-> "Twin", Trophies |-> 3050, CurrentDeck |-> MockDeck]

\* the contents of player.json that are explored: one to three entries
MockLists ==
    LET M == {MockMe, MockOther, MockNoDeck, MockTwin}
    IN  {<<a>> : a \in M} \cup {<<a, b>> : a \in M, b \in M}
            \cup {<<a, b, c>> : a \in M, b \in M, c \in M}

\* mutant: the comparison of tags always finding them different
C38_TagDiffers_Always(tag, playerTag) == TRUE

\* opponent.(MockPlayer).Tag != player.Tag
TagDiffers(tag, playerTag) == tag # playerTag

\* the player is the mock player whose tag was entered, so player.Tag is the
\* tag of an entry of mockPlayers; opponent is nil (pick 0) before the loop
InitSel ==
    /\ InitBattle
    /\ \E mockPlayers \in MockLists :
          \E i \in 1..Len(mockPlayers) :
             call = [op |-> "selectLoop", done |-> FALSE, mockPlayers |-> mockPlayers,
                     playerTag |-> mockPlayers[i].Tag, pick |-> 0,
                     out |-> [opponent |-> NilOpponent, opponentName |-> "",
                              opponentTrophies |-> 0]]

\* one iteration: opponent = mockPlayers[rand.Intn(len(mockPlayers))], and the
\* break with the assignments after the loop when its tag differs
LoopIteration(i) ==
    LET o == call.mockPlayers[i]
    IN  /\ call' = IF TagDiffers(o.Tag, call.playerTag)
                   THEN [call EXCEPT !.pick = i, !.done = TRUE,
                            !.out = [opponent |-> [kind |-> "MockPlayer",
                                                   CurrentDeck |-> o.CurrentDeck],
                                     opponentName |-> o.Name,
                                     opponentTrophies |-> o.Trophies]]
                   ELSE [call EXCEPT !.pick = i]
        /\ UNCHANGED << isTestMode, opponent, opponentName, state, replay, pc, outcome,
                        reader, elixirTick, enemyActionTick, elapsed >>

\* an iteration that draws an entry with another tag: the loop breaks
LoopDrawOther ==
    /\ call.op = "selectLoop"
    /\ ~call.done
    /\ Len(call.mockPlayers) > 1
    /\ \E i \in 1..Len(call.mockPlayers) :
          /\ TagDiffers(call.mockPlayers[i].Tag, call.playerTag)
          /\ LoopIteration(i)

\* an iteration that draws an entry with the player's tag: the loop goes on
LoopDrawSame ==
    /\ call.op = "selectLoop"
    /\ ~call.done
    /\ Len(call.mockPlayers) > 1
    /\ \E i \in 1..Len(call.mockPlayers) :
          /\ ~TagDiffers(call.mockPlayers[i].Tag, call.playerTag)
          /\ LoopIteration(i)

\* len(mockPlayers) <= 1: no loop, the default name and trophies
SelectDefault ==
    /\ call.op = "selectLoop"
    /\ ~call.done
    /\ Len(call.mockPlayers) <= 1
    /\ call' = [call EXCEPT !.done = TRUE,
                    !.out = [opponent |-> NilOpponent, opponentName |-> "Default Enemy",
                             opponentTrophies |-> 1000]]
    /\ UNCHANGED << isTestMode, opponent, opponentName, state, replay, pc, outcome,
                    reader, elixirTick, enemyActionTick, elapsed >>

NextSel ==
    \/ LoopDrawOther
    \/ LoopDrawSame
    \/ SelectDefault

SpecSel == InitSel /\ [][NextSel]_vars

\* rand.Intn draws every index again and again: an entry with another tag,
\* when there is one, is eventually drawn
LiveSel == InitSel /\ [][NextSel]_vars /\ WF_vars(LoopDrawOther)

(***************************************************************************)
(* Properties                                                              *)
(***************************************************************************)

Last(q) == q[Len(q)]

TerminalEntries ==
    {"Player won the match", "Opponent won the match", "Player surrendered",
     "Match ended in a draw"}

TerminalOf(o) ==
    CASE o = "PlayerWin"   -> "Player won the match"
      [] o = "OpponentWin" -> "Opponent won the match"
      [] o = "Surrender"   -> "Player surrendered"
      [] o = "Draw"        -> "Match ended in a draw"
      [] OTHER             -> "none"

KingHP(towers) == towers[3].HP

GuardsDown(towers) == towers[1].HP = 0 /\ towers[2].HP = 0

\* the engine took a line from inputChan in this step
InputTaken == reader.pc = "sendInput" /\ reader'.pc # "sendInput"

\* the engine processed an event in this step
EventProcessed == EngineSurrender \/ EngineInput \/ EngineRegen \/ EngineEnemy

\* C1: under fairness of the clock and of the regeneration tick, every battle
\* returns, whatever the player types and also when the input is silent or
\* at end-of-file; and while the loop runs a regeneration tick can always be
\* processed, wherever the input goroutine stands.
C1_BattleReturns ==
    /\ <>(pc = "returned")
    /\ [](pc = "select" => ENABLED EngineRegen)

\* a battle that returned although no line was ever delivered
C1_Witness ==
    /\ pc = "returned"
    /\ reader.pc \in {"scan", "done"}
    /\ replay = <<"Match ended in a draw">>

\* C2: a returned battle has exactly one of the four outcomes, its log ends
\* with the matching terminal entry, and a terminal entry occurs nowhere else
\* in the log; a running battle has none.
C2_OutcomeMatchesLog ==
    /\ \A i \in 1..(Len(replay) - 1) : replay[i] \notin TerminalEntries
    /\ pc = "select" =>
          /\ outcome = "Running"
          /\ replay # <<>> => Last(replay) \notin TerminalEntries
    /\ pc = "returned" =>
          /\ outcome \in {"PlayerWin", "OpponentWin", "Surrender", "Draw"}
          /\ replay # <<>>
          /\ Last(replay) = TerminalOf(outcome)

\* a player win recorded after three resolved attacks
C2_Witness ==
    /\ outcome = "PlayerWin"
    /\ Len(replay) >= 4
    /\ Last(replay) = "Player won the match"

\* C3: every tower of both sides keeps 0 <= HP <= MaxHP, and each side keeps
\* its three towers, in place and with their maxima, for the whole battle.
C3_TowersInRange ==
    \A towers \in {state.PlayerTowers, state.EnemyTowers} :
        /\ Len(towers) = 3
        /\ \A i \in 1..3 :
              /\ towers[i].Type = InitTowers[i].Type
              /\ towers[i].MaxHP = InitTowers[i].MaxHP
              /\ 0 <= towers[i].HP
              /\ towers[i].HP <= towers[i].MaxHP

\* a guard tower clamped at 0 by a 1990-damage hit, and the King Tower left at 10
C3_Witness ==
    /\ state.EnemyTowers[1].HP = 0
    /\ state.EnemyTowers[2].HP = 0
    /\ state.EnemyTowers[3].HP = 10
    /\ state.PlayerTowers[1].HP = 0

\* C4: both elixir pools stay within [0, 10], and a step that deducts player
\* elixir or damages an opponent tower is the play of a valid selection whose
\* cost the player's elixir covered, charged exactly.
C4_ElixirInRange ==
    /\ [](/\ state.PlayerElixir >= 0 /\ state.PlayerElixir <= 10
          /\ state.EnemyElixir >= 0 /\ state.EnemyElixir <= 10)
    /\ [][(state'.PlayerElixir < state.PlayerElixir
              \/ state'.EnemyTowers # state.EnemyTowers) =>
            /\ reader.pc = "sendInput"
            /\ ~InvalidChoice(reader.input)
            /\ LET cost == PlayerStats(PlayerDeck[parseInt(reader.input).n].Name).ElixirCost
               IN  /\ cost <= state.PlayerElixir
                   /\ state'.PlayerElixir = state.PlayerElixir - cost]_vars

\* both pools driven low by plays: two Giants, three opponent plays
C4_Witness ==
    /\ state.PlayerElixir = 0
    /\ state.EnemyElixir <= 4
    /\ Len(replay) >= 4

\* C5: PlayerWin only with the opponent's King Tower at 0, OpponentWin only
\* with the player's King Tower at 0; while a side's King Tower stands, the
\* fall of its two guard towers does not give the other side the win.
C5_KingTowerDecides ==
    /\ outcome = "PlayerWin" => KingHP(state.EnemyTowers) <= 0
    /\ outcome = "OpponentWin" => KingHP(state.PlayerTowers) <= 0
    /\ (GuardsDown(state.EnemyTowers) /\ KingHP(state.EnemyTowers) > 0
           /\ KingHP(state.PlayerTowers) > 0) => outcome \notin {"PlayerWin", "OpponentWin"}
    /\ (GuardsDown(state.PlayerTowers) /\ KingHP(state.PlayerTowers) > 0
           /\ KingHP(state.EnemyTowers) > 0) => outcome \notin {"PlayerWin", "OpponentWin"}

\* the battle still running with both of the opponent's guard towers down
C5_Witness ==
    /\ pc = "select"
    /\ GuardsDown(state.EnemyTowers)
    /\ KingHP(state.EnemyTowers) > 0
    /\ replay = <<"Player used", "Player used">>

\* the first tower, in the fixed order, standing before the call (0 if none)
FirstStanding(towers) ==
    IF towers[1].HP > 0 THEN 1
    ELSE IF towers[2].HP > 0 THEN 2
    ELSE IF towers[3].HP > 0 THEN 3
    ELSE 0

\* C6: applyDamage changes exactly the first tower standing in the order
\* Guard Tower 1, Guard Tower 2, King Tower, to max(0, HP - amount), leaves the
\* other two alone and returns that tower's name and resulting HP.
C6_ApplyDamageFirstStanding ==
    (call.op = "applyDamage" /\ call.done /\ FirstStanding(call.towers) # 0) =>
        LET k     == FirstStanding(call.towers)
            newHP == IF call.towers[k].HP - call.damage > 0
                     THEN call.towers[k].HP - call.damage ELSE 0
        IN  /\ Len(call.out.towers) = 3
            /\ call.out.towers[k].HP = newHP
            /\ \A j \in 1..3 : j # k => call.out.towers[j] = call.towers[j]
            /\ call.out.towers[k] = [call.towers[k] EXCEPT !.HP = newHP]
            /\ call.out.result = <<targetOrder[k], newHP>>
            /\ (call.towers = InitTowers /\ call.damage = 200) =>
                  call.out.result = <<"Guard Tower 1", 800>>
            /\ (call.towers = HelperTowers(0, 0, 2000) /\ call.damage = 300) =>
                  call.out.towers[3].HP = 1700

\* the King Tower, behind two fallen guards, taken from 2000 to 1700
C6_Witness ==
    /\ call.op = "applyDamage"
    /\ call.done
    /\ call.towers = HelperTowers(0, 0, 2000)
    /\ call.damage = 300
    /\ call.out.result = <<"King Tower", 1700>>

\* C7: with all three towers at 0, applyDamage returns the "No towers left"
\* descriptor and changes no tower.
C7_NoTowersLeftIsNoOp ==
    (call.op = "applyDamage" /\ call.done /\ FirstStanding(call.towers) = 0) =>
        /\ call.out.result = <<"No towers left">>
        /\ call.out.towers = call.towers

\* the call made on three fallen towers
C7_Witness ==
    /\ call.op = "applyDamage"
    /\ call.done
    /\ call.towers = HelperTowers(0, 0, 0)
    /\ call.out.result = <<"No towers left">>

\* C8 (as claimed): once more than 3 minutes have elapsed, every event the
\* engine processes, a rejected input included, ends with the draw, unless the
\* event itself ended the battle.
C8_DrawAfterAnyEvent ==
    [][(EventProcessed /\ elapsed > DrawLimit
            /\ outcome' \notin {"PlayerWin", "OpponentWin", "Surrender"}) =>
          /\ pc' = "returned"
          /\ outcome' = "Draw"
          /\ Last(replay') = "Match ended in a draw"]_vars

\* C9 (as claimed): past 3 minutes with both King Towers standing, the
\* battle ends as a draw with the draw message last, whichever tick or card
\* play is pending and processed at that moment.
C9_DrawWhateverIsPending ==
    [][(pc = "select" /\ elapsed > DrawLimit
            /\ KingHP(state.PlayerTowers) > 0 /\ KingHP(state.EnemyTowers) > 0
            /\ (EngineRegen \/ EngineEnemy
                   \/ (EngineInput /\ state'.PlayerElixir < state.PlayerElixir))) =>
          /\ pc' = "returned"
          /\ outcome' = "Draw"
          /\ Last(replay') = "Match ended in a draw"]_vars

\* C9 (amended): past 3 minutes, a regeneration tick, an opponent tick or an
\* accepted card play that leaves both King Towers standing ends the battle as
\* a draw with the draw message last; and a draw is returned only past
\* 3 minutes with both King Towers standing.
C9_DrawAtFallThrough ==
    /\ [][(elapsed > DrawLimit
             /\ (EngineRegen \/ EngineEnemy
                    \/ (EngineInput /\ state'.PlayerElixir < state.PlayerElixir))
             /\ KingHP(state'.PlayerTowers) > 0 /\ KingHP(state'.EnemyTowers) > 0) =>
            /\ pc' = "returned"
            /\ outcome' = "Draw"
            /\ Last(replay') = "Match ended in a draw"]_vars
    /\ [](outcome = "Draw" =>
            /\ elapsed > DrawLimit
            /\ KingHP(state.PlayerTowers) > 0
            /\ KingHP(state.EnemyTowers) > 0)

\* a draw returned after attacks of both sides
C9_Witness ==
    /\ outcome = "Draw"
    /\ elapsed > DrawLimit
    /\ Len(replay) >= 3
    /\ GuardsDown(state.EnemyTowers)
    /\ state.PlayerTowers[1].HP = 0

\* C10 (as claimed): a line taken by the engine as a player-input event is
\* never the surrender token.
C10_SurrenderTokenNeverAnInput ==
    [][InputTaken => reader.input # <<"0">>]_vars

\* C11 (as claimed): once the battle has returned, its input goroutine has
\* ended: it is no longer blocked in a read of the input nor holding a line.
C11_ReaderEndsWithBattle == pc = "returned" => reader.pc = "done"

\* C12: every return of playGame leaves both tickers stopped, and once the
\* battle has returned no step processes an event or changes the battle's
\* state, log or outcome.
C12_TimersStoppedAtReturn ==
    /\ [](pc = "returned" => elixirTick.stopped /\ enemyActionTick.stopped)
    /\ [](pc = "select" => ~elixirTick.stopped /\ ~enemyActionTick.stopped)
    /\ [][pc = "returned" =>
            /\ ~(EngineSurrender \/ EngineInput \/ EngineRegen \/ EngineEnemy)
            /\ UNCHANGED << state, replay, outcome, pc, elixirTick, enemyActionTick >>]_vars

\* a battle lost to the opponent, returned with a line still undelivered
C12_Witness ==
    /\ outcome = "OpponentWin"
    /\ elixirTick.stopped
    /\ enemyActionTick.stopped
    /\ reader.pc = "sendInput"

\* C13: the step that processes a surrender appends "Player surrendered",
\* changes no tower and no elixir and returns Surrender at once, also past
\* 3 minutes; and a battle that returned with both King Towers standing
\* returned Surrender, or Draw past the 3 minutes.
C13_SurrenderEndsAtOnce ==
    /\ [][EngineSurrender =>
            /\ replay' = Append(replay, "Player surrendered")
            /\ state' = state
            /\ outcome' = "Surrender"
            /\ pc' = "returned"]_vars
    /\ []((pc = "returned" /\ KingHP(state.PlayerTowers) > 0
              /\ KingHP(state.EnemyTowers) > 0) =>
            \/ outcome = "Surrender"
            \/ outcome = "Draw" /\ elapsed > DrawLimit)

\* a surrender past the 3 minutes, after plays that spent elixir and felled towers
C13_Witness ==
    /\ outcome = "Surrender"
    /\ Last(replay) = "Player surrendered"
    /\ elapsed > DrawLimit
    /\ Len(replay) >= 3
    /\ state.PlayerElixir < 10
    /\ state.EnemyTowers[1].HP = 0

\* C14: a step of the input goroutine (a line read, or end-of-file) leaves the
\* towers, the elixir pools, the log, the outcome and the tickers as they
\* were; every step that changes the towers, the elixir or the log is one
\* event processed by the engine loop while it runs.
C14_StateOwnedByEngine ==
    /\ [][(ReaderScan \/ ReaderEOF) =>
            UNCHANGED << state, replay, pc, outcome, elixirTick, enemyActionTick >>]_vars
    /\ [][(state' # state \/ replay' # replay) =>
            /\ pc = "select"
            /\ EventProcessed
            /\ ~(ReaderScan \/ ReaderEOF)]_vars

\* the goroutine holding a line it read while the engine was resolving attacks
C14_Witness ==
    /\ pc = "select"
    /\ reader.pc = "sendInput"
    /\ reader.input = <<"2", "x">>
    /\ replay = <<"Opponent used", "Player used", "Opponent used">>

\* the elixir the engine charges for a line: the card's cost when the line is
\* a valid selection the pool covers, nothing otherwise
ChargeFor(input, st) ==
    IF InvalidChoice(input) THEN 0
    ELSE LET cost == PlayerStats(PlayerDeck[parseInt(input).n].Name).ElixirCost
         IN  IF cost > st.PlayerElixir THEN 0 ELSE cost

\* C15: a line the input goroutine holds is neither replaced nor dropped: it
\* leaves the goroutine only by the engine receiving it, the engine receives
\* it once and acts on that very line, no further line is read before, and
\* each step resolves at most one card play or opponent attack.
C15_InputLinesInOrder ==
    /\ [][(reader.pc = "sendInput" /\ reader' # reader) =>
            /\ EngineInput
            /\ pc = "select"]_vars
    /\ [][EngineInput =>
            /\ reader'.pc # "sendInput"
            /\ state'.PlayerElixir = state.PlayerElixir - ChargeFor(reader.input, state)]_vars
    /\ [][ReaderScan => reader.pc = "scan" /\ reader.input = <<>>]_vars
    /\ [][Len(replay') >= Len(replay) /\
          Cardinality({i \in (Len(replay) + 1)..Len(replay') :
                          replay'[i] \notin TerminalEntries}) <= 1]_vars

\* the Knight and then a 5-elixir card played in the order typed, a third
\* line read and waiting
C15_Witness ==
    /\ pc = "select"
    /\ replay = <<"Player used", "Player used">>
    /\ state.PlayerElixir = 2
    /\ state.EnemyElixir = 10
    /\ reader.pc = "sendInput"
    /\ reader.input = <<"3">>

\* C16: at every step the log before the step is a prefix of the log after
\* it, and what a step adds is added at the end in the order resolved: the
\* entry of the card play or opponent attack first, a terminal entry after it.
C16_LogAppendOnly ==
    /\ [][/\ Len(replay') >= Len(replay)
          /\ SubSeq(replay', 1, Len(replay)) = replay]_vars
    /\ [][(EngineInput /\ state'.EnemyTowers # state.EnemyTowers) =>
            /\ Len(replay') > Len(replay)
            /\ replay'[Len(replay) + 1] = "Player used"]_vars
    /\ [][(EngineEnemy /\ state'.PlayerTowers # state.PlayerTowers) =>
            /\ Len(replay') > Len(replay)
            /\ replay'[Len(replay) + 1] = "Opponent used"]_vars

\* attacks of both sides logged in the order resolved, the draw entry last
C16_Witness ==
    replay = <<"Opponent used", "Player used", "Opponent used", "Match ended in a draw">>

\* C17: a line that does not parse as an integer, or whose value is outside
\* 1..deck size, is rejected: processing it changes no tower, no elixir and
\* not the log, and leaves the battle running with its tickers.
C17_InvalidChoiceNoMutation ==
    /\ [][(EngineInput /\ (parseInt(reader.input).err
                             \/ parseInt(reader.input).n < 1
                             \/ parseInt(reader.input).n > Len(PlayerDeck))) =>
            /\ UNCHANGED << state, replay, elixirTick, enemyActionTick >>
            /\ pc' = "select"
            /\ outcome' = "Running"]_vars
    /\ [](/\ parseInt(<<"x">>).err
          /\ ~parseInt(<<"0">>).err /\ parseInt(<<"0">>).n = 0
          /\ ~parseInt(<<"4">>).err /\ parseInt(<<"4">>).n = 4)

\* the line "0" rejected as an invalid choice past the 3 minutes, the battle
\* still running after attacks of both sides
C17_Witness ==
    /\ pc = "select"
    /\ outcome = "Running"
    /\ reader.pc = "sendQuit"
    /\ elapsed > DrawLimit
    /\ replay = <<"Player used", "Opponent used">>

\* C18: a valid selection whose card costs more than the player's elixir is
\* rejected: processing it changes no tower, leaves both elixir pools and the
\* log as they were, and the battle keeps running.
C18_UnaffordableCardNoMutation ==
    [][(EngineInput
          /\ ~parseInt(reader.input).err
          /\ parseInt(reader.input).n \in 1..Len(PlayerDeck)
          /\ PlayerStats(PlayerDeck[parseInt(reader.input).n].Name).ElixirCost
                > state.PlayerElixir) =>
         /\ UNCHANGED << state, replay, elixirTick, enemyActionTick >>
         /\ pc' = "select"
         /\ outcome' = "Running"]_vars

\* elixir 2 and the 5-elixir Giant selected: the engine can take the line, and
\* taking it leaves the state and the log alone
C18_Witness ==
    /\ pc = "select"
    /\ state.PlayerElixir = 2
    /\ reader.pc = "sendInput"
    /\ parseInt(reader.input).n = 2
    /\ PlayerStats(PlayerDeck[2].Name).ElixirCost = 5
    /\ replay = <<"Player used", "Player used">>
    /\ ENABLED (EngineInput /\ UNCHANGED << state, replay >>)

\* C19: processing a valid selection whose cost the player's elixir covers
\* deducts exactly that cost, lowers the HP of exactly one opponent tower (the
\* first standing), leaves the player's towers and the opponent's elixir
\* alone and appends one entry for the play; if the opponent's King Tower is
\* then at 0 the win entry follows and the battle returns PlayerWin, and
\* otherwise nothing but the draw entry of the 3-minute check can follow.
C19_AcceptedPlayFrame ==
    [][(EngineInput
          /\ ~parseInt(reader.input).err
          /\ parseInt(reader.input).n \in 1..Len(PlayerDeck)
          /\ PlayerStats(PlayerDeck[parseInt(reader.input).n].Name).ElixirCost
                <= state.PlayerElixir) =>
         LET cost    == PlayerStats(PlayerDeck[parseInt(reader.input).n].Name).ElixirCost
             changed == {i \in 1..3 : state'.EnemyTowers[i] # state.EnemyTowers[i]}
             k       == FirstStanding(state.EnemyTowers)
             played  == Append(replay, "Player used")
         IN  /\ state'.PlayerElixir = state.PlayerElixir - cost
             /\ changed = {k}
             /\ state'.EnemyTowers[k].HP < state.EnemyTowers[k].HP
             /\ state'.EnemyTowers[k] =
                   [state.EnemyTowers[k] EXCEPT !.HP = state'.EnemyTowers[k].HP]
             /\ state'.PlayerTowers = state.PlayerTowers
             /\ state'.EnemyElixir = state.EnemyElixir
             /\ IF KingHP(state'.EnemyTowers) <= 0
                THEN /\ replay' = Append(played, "Player won the match")
                     /\ outcome' = "PlayerWin"
                     /\ pc' = "returned"
                ELSE \/ /\ replay' = played
                        /\ outcome' = "Running"
                        /\ pc' = "select"
                     \/ /\ elapsed > DrawLimit
                        /\ replay' = Append(played, "Match ended in a draw")
                        /\ outcome' = "Draw"]_vars

\* three plays, the last one felling the King Tower, and the player's side
\* and the opponent's elixir never touched
C19_Witness ==
    /\ outcome = "PlayerWin"
    /\ replay = <<"Player used", "Player used", "Player used", "Player won the match">>
    /\ state.PlayerTowers = InitTowers
    /\ state.EnemyElixir = 10
    /\ KingHP(state.EnemyTowers) = 0

\* C20: processing a regeneration tick sets each side's elixir to
\* min(elixir + 1, 10) and changes no tower; the tick adds nothing to the log
\* and ends the battle neither by a win, a loss nor a surrender: the battle
\* keeps running with its log as it was, unless the 3-minute check that closes
\* the iteration appends the draw entry and returns Draw.
C20_RegenFrame ==
    [][EngineRegen =>
         /\ state'.PlayerElixir =
               (IF state.PlayerElixir + 1 < 10 THEN state.PlayerElixir + 1 ELSE 10)
         /\ state'.EnemyElixir =
               (IF state.EnemyElixir + 1 < 10 THEN state.EnemyElixir + 1 ELSE 10)
         /\ state'.PlayerTowers = state.PlayerTowers
         /\ state'.EnemyTowers = state.EnemyTowers
         /\ reader' = reader
         /\ outcome' \notin {"PlayerWin", "OpponentWin", "Surrender"}
         /\ \/ /\ replay' = replay
               /\ outcome' = "Running"
               /\ pc' = "select"
            \/ /\ elapsed > DrawLimit
               /\ replay' = Append(replay, "Match ended in a draw")
               /\ outcome' = "Draw"]_vars

\* the player's elixir back at 3 after a Knight and a Giant took it to 2, the
\* opponent's held at the cap of 10
C20_Witness ==
    /\ pc = "select"
    /\ replay = <<"Player used", "Player used">>
    /\ state.PlayerElixir = 3
    /\ state.EnemyElixir = 10
    /\ state.EnemyTowers[2].HP = 0
    /\ state.PlayerTowers = InitTowers

\* C21: an opponent-action tick is processed against a standing King Tower of
\* the player; when the policy plays (elixir at least 3 and a non-empty deck,
\* so damage > 0) the step lowers the HP of exactly one player tower (the
\* first standing), deducts 3 from the opponent's elixir, leaves the
\* opponent's towers and the player's elixir alone and appends one entry for
\* the attack; if the player's King Tower is then at 0 the loss entry follows
\* and the battle returns OpponentWin, and otherwise nothing but the draw
\* entry of the 3-minute check can follow.
C21_OpponentTickFrame ==
    [][EngineEnemy =>
         /\ KingHP(state.PlayerTowers) > 0
         /\ state'.PlayerTowers # state.PlayerTowers =>
               state.EnemyElixir >= 3 /\ Len(EnemyDeck(isTestMode, opponent)) > 0
         /\ (state.EnemyElixir >= 3 /\ Len(EnemyDeck(isTestMode, opponent)) > 0) =>
               LET changed == {i \in 1..3 : state'.PlayerTowers[i] # state.PlayerTowers[i]}
                   k       == FirstStanding(state.PlayerTowers)
                   played  == Append(replay, "Opponent used")
               IN  /\ changed = {k}
                   /\ state'.PlayerTowers[k].HP < state.PlayerTowers[k].HP
                   /\ state'.PlayerTowers[k] =
                         [state.PlayerTowers[k] EXCEPT !.HP = state'.PlayerTowers[k].HP]
                   /\ state'.EnemyElixir = state.EnemyElixir - 3
                   /\ state'.EnemyTowers = state.EnemyTowers
                   /\ state'.PlayerElixir = state.PlayerElixir
                   /\ IF KingHP(state'.PlayerTowers) <= 0
                      THEN /\ replay' = Append(played, "Opponent won the match")
                           /\ outcome' = "OpponentWin"
                           /\ pc' = "returned"
                      ELSE \/ /\ replay' = played
                              /\ outcome' = "Running"
                              /\ pc' = "select"
                           \/ /\ elapsed > DrawLimit
                              /\ replay' = Append(played, "Match ended in a draw")
                              /\ outcome' = "Draw"]_vars

\* three opponent attacks, the last one felling the player's King Tower, the
\* opponent's elixir down from 10 to 1 and nothing else touched
C21_Witness ==
    /\ outcome = "OpponentWin"
    /\ replay = <<"Opponent used", "Opponent used", "Opponent used",
                  "Opponent won the match">>
    /\ state.EnemyElixir = 1
    /\ state.PlayerElixir = 10
    /\ state.EnemyTowers = InitTowers
    /\ KingHP(state.PlayerTowers) = 0

\* C22: when the opponent's elixir is below 3 or its deck is empty, the policy
\* returns damage 0 and a skip description that starts with the opponent's
\* name, whatever it would have drawn, and the tick then changes no tower and
\* no elixir and adds no entry for the opponent (only the draw entry of the
\* 3-minute check can follow).
C22_OpponentSkipsTurn ==
    [][(EngineEnemy
          /\ (state.EnemyElixir < 3
                \/ (IF isTestMode /\ opponent.kind = "MockPlayer"
                    THEN opponent.CurrentDeck ELSE PlayerDeck) = <<>>)) =>
         /\ \A pick \in 1..3, draw \in DrawSet :
               LET t == simulateEnemyTurn(EnemyDeck(isTestMode, opponent),
                                          state.EnemyElixir, opponentName,
                                          state.PlayerTowers, pick,
                                          draw[1], draw[2], draw[3])
               IN  /\ t.damage = 0
                   /\ t.action = <<opponentName, "skipped turn (not enough elixir)">>
         /\ state' = state
         /\ \/ /\ replay' = replay
               /\ outcome' = "Running"
               /\ pc' = "select"
            \/ /\ elapsed > DrawLimit
               /\ replay' = Append(replay, "Match ended in a draw")
               /\ outcome' = "Draw"]_vars

\* the opponent at elixir 2 after three attacks and one regeneration tick, the
\* player's King Tower left at 10: the tick can be processed, and leaves the
\* state alone
C22_Witness ==
    /\ pc = "select"
    /\ state.EnemyElixir = 2
    /\ replay = <<"Opponent used", "Opponent used", "Opponent used">>
    /\ KingHP(state.PlayerTowers) = 10
    /\ ENABLED (EngineEnemy /\ UNCHANGED << state, replay >>)

\* C23: a step in which the opponent attacks deducts exactly 3 from the
\* opponent's elixir whichever card it drew, and with elixir 3 or more every
\* card of its deck can be drawn and played, the 5-elixir Giant included; a
\* step in which the player's card is played deducts exactly the listed cost
\* of the selected card.
C23_FlatOpponentCost ==
    /\ [][(EngineEnemy /\ state'.PlayerTowers # state.PlayerTowers) =>
            state'.EnemyElixir = state.EnemyElixir - 3]_vars
    /\ [][(EngineInput /\ state'.EnemyTowers # state.EnemyTowers) =>
            state'.PlayerElixir = state.PlayerElixir
                - PlayerStats(PlayerDeck[parseInt(reader.input).n].Name).ElixirCost]_vars
    /\ []((pc = "select" /\ state.EnemyElixir >= 3) =>
            LET deck == EnemyDeck(isTestMode, opponent)
            IN  \A pick \in 1..Len(deck), draw \in DrawSet :
                   simulateEnemyTurn(deck, state.EnemyElixir, opponentName,
                                     state.PlayerTowers, pick,
                                     draw[1], draw[2], draw[3]).damage > 0)

\* the opponent, playing from the player's deck with the Giant in it, attacked
\* at elixir 4 and stands at 1; the player paid 5 for the Giant
C23_Witness ==
    /\ opponentName = "Member"
    /\ EnemyStats(EnemyDeck(isTestMode, opponent)[2].Name).ElixirCost = 5
    /\ state.EnemyElixir = 1
    /\ state.PlayerElixir = 5
    /\ replay = <<"Opponent used", "Player used", "Opponent used", "Opponent used">>

\* C24: calculateDamage returns damage >= 1 for every card, level, jitter and
\* crit combination, and exactly 1 when base + jitter is zero or negative.
C24_DamageAtLeastOne ==
    (call.op = "calculateDamage" /\ call.done) =>
        /\ call.out.damage >= 1
        /\ call.stats.BaseDamage + (call.card.Level - 1) * 10 + call.randomFactor <= 0 =>
              call.out.damage = 1

\* a card the catalog lacks at level -5, jitter -10: base + jitter is -20, the
\* hit is a double crit and the damage returned is 1
C24_Witness ==
    /\ call.op = "calculateDamage"
    /\ call.done
    /\ call.stats.BaseDamage + (call.card.Level - 1) * 10 + call.randomFactor = -20
    /\ call.out.cardCrit
    /\ call.out.towerCrit
    /\ call.out.damage = 1

\* C25 (as claimed): the damage is base + jitter times exactly 1.0, 1.5, 1.2
\* or 1.8 (no crit, card crit, tower crit, both), cut to an integer and raised
\* to 1; a double crit on base 100 with jitter 0 gives 180.
C25_ExactMultipliers ==
    (call.op = "calculateDamage" /\ call.done) =>
        LET d     == call.stats.BaseDamage + (call.card.Level - 1) * 10 + call.randomFactor
            tenth == CASE call.out.cardCrit /\ call.out.towerCrit -> 18
                       [] call.out.cardCrit                       -> 15
                       [] call.out.towerCrit                      -> 12
                       [] OTHER                                   -> 10
            exact == IF d >= 0 THEN (d * tenth) \div 10 ELSE -((-d * tenth) \div 10)
        IN  /\ call.out.damage = (IF exact > 1 THEN exact ELSE 1)
            /\ (d = 100 /\ tenth = 18) => call.out.damage = 180

\* C26 (as claimed): the tower crit is decided against the crit chance of the
\* first defending tower with HP > 0 in the order Guard Tower 1, Guard Tower 2,
\* King Tower, and against the King Tower's when no tower has HP > 0.
C26_TowerCritChanceOfFirstStanding ==
    (call.op = "calculateDamage" /\ call.done) =>
        LET k      == FirstStanding(call.targetTowers)
            chance == IF k # 0 THEN call.targetTowers[k].CRIT
                               ELSE call.targetTowers[3].CRIT
        IN  call.out.towerCrit = (call.r2 < chance)

\* C27 (as claimed): a card is played only for a line that is an integer from
\* "1" to the deck size; a number followed by other characters is an invalid
\* choice.
C27_OnlyPlainIntegersPlay ==
    [][(EngineInput /\ state' # state) =>
         reader.input \in {<<"1">>, <<"2">>, <<"3">>}]_vars

\* C28: a battle starts with Guard Tower 1 and 2 at 1000/1000 and the King
\* Tower at 2000/2000 on both sides, both elixir pools at 10 and an empty log,
\* and stays so until the engine processes its first event.
C28_InitialState ==
    /\ \A towers \in {state.PlayerTowers, state.EnemyTowers} :
          /\ Len(towers) = 3
          /\ towers[1].Type = "Guard Tower 1" /\ towers[1].HP = 1000 /\ towers[1].MaxHP = 1000
          /\ towers[2].Type = "Guard Tower 2" /\ towers[2].HP = 1000 /\ towers[2].MaxHP = 1000
          /\ towers[3].Type = "King Tower" /\ towers[3].HP = 2000 /\ towers[3].MaxHP = 2000
    /\ state.PlayerElixir = 10
    /\ state.EnemyElixir = 10
    /\ replay = <<>>
    /\ pc = "select"
    /\ outcome = "Running"
    /\ [][~EventProcessed => UNCHANGED << state, replay >>]_vars

\* the battle as set up, before any line was read or any tick processed
C28_Witness ==
    /\ pc = "select"
    /\ elapsed = 0
    /\ reader = [pc |-> "scan", input |-> <<>>]
    /\ replay = <<>>
    /\ state.PlayerElixir = 10
    /\ state.EnemyElixir = 10
    /\ state.PlayerTowers = state.EnemyTowers
    /\ state.PlayerTowers[3].HP = 2000
    /\ ~elixirTick.stopped

\* the deck the claim gives the opponent: its own when it is a mock opponent
\* of test mode, the player's otherwise
ClaimedEnemyDeck ==
    IF isTestMode /\ opponent.kind = "MockPlayer" THEN opponent.CurrentDeck ELSE PlayerDeck

\* C29: the opponent's mode and identity never change during a battle, the
\* deck it plays from is its own deck for a mock opponent of test mode and the
\* player's deck for a live-mode opponent and for the default opponent, and
\* it attacks exactly when its elixir is at least 3 and that deck has a card.
C29_OpponentDeckFixed ==
    /\ [][UNCHANGED << isTestMode, opponent, opponentName >>]_vars
    /\ [](/\ EnemyDeck(isTestMode, opponent) = ClaimedEnemyDeck
          /\ opponentName = "Mock" => ClaimedEnemyDeck = MockDeck
          /\ opponentName = "Empty" => ClaimedEnemyDeck = <<>>
          /\ opponentName \in {"Member", "Default Enemy"} => ClaimedEnemyDeck = PlayerDeck)
    /\ [][EngineEnemy =>
            ((state'.PlayerTowers # state.PlayerTowers)
                <=> (state.EnemyElixir >= 3 /\ ClaimedEnemyDeck # <<>>))]_vars

\* a live-mode default opponent, which has no deck of its own, has attacked
\* twice from the player's deck
C29_Witness ==
    /\ ~isTestMode
    /\ opponent = NilOpponent
    /\ opponentName = "Default Enemy"
    /\ replay = <<"Opponent used", "Opponent used">>
    /\ state.EnemyElixir = 4

\* the selections the claim lists as yielding no opponent: test mode with at
\* most one mock player, an invalid mode, no clan, no tournament entered, a
\* collaborator call that fails or returns an empty list
NoOpponentFound(in) ==
    IF in.isTestMode
    THEN Len(in.mockPlayers) <= 1
    ELSE \/ in.mode \notin {"1", "2", "3", "4"}
         \/ in.mode \in {"1", "4"} /\ (in.clanTag = "" \/ in.fetch # "ok")
         \/ in.mode = "3" /\ in.fetch # "ok"
         \/ in.mode = "2" /\ (in.tournamentInput = "" \/ (in.fetch # "ok" /\ in.search # "ok"))

\* C30: a selection that finds no opponent hands playGame a nil opponent named
\* "Default Enemy" with 1000 trophies, and any other selection a found
\* opponent with its own name; no failure or unnamed opponent gets through.
C30_DefaultOpponentOnFailure ==
    (call.op = "selectOpponent" /\ call.done) =>
        /\ NoOpponentFound(call.in) =>
              call.out = [opponent |-> NilOpponent, opponentName |-> "Default Enemy",
                          opponentTrophies |-> 1000]
        /\ ~NoOpponentFound(call.in) =>
              /\ call.out.opponent.kind \in {"MockPlayer", "ClanMember", "TournamentMember",
                                             "PlayerRanking", "WarParticipant"}
              /\ call.out.opponentName \notin {"", "Default Enemy"}

\* tournament mode: the lookup failed and the search found a tournament
\* without members, and the default opponent was substituted
C30_Witness ==
    /\ call.op = "selectOpponent"
    /\ call.done
    /\ ~call.in.isTestMode
    /\ call.in.mode = "2"
    /\ call.in.tournamentInput = "#T"
    /\ call.in.fetch = "err"
    /\ call.in.search = "noMembers"
    /\ call.out.opponentName = "Default Enemy"
    /\ call.out.opponentTrophies = 1000

\* C31: while the engine waits for its next event both King Towers have
\* HP > 0; so the opponent tick always finds the player's King Tower standing,
\* every attack is computed and applied against a side with a tower above 0,
\* and applyDamage does not return "No towers left" in a battle.
C31_KingsStandWhileRunning ==
    /\ [](pc = "select" =>
            /\ KingHP(state.PlayerTowers) > 0
            /\ KingHP(state.EnemyTowers) > 0
            /\ ~isKingTowerDestroyed(state.PlayerTowers)
            /\ \A towers \in {state.PlayerTowers, state.EnemyTowers} :
                  /\ FirstStanding(towers) # 0
                  /\ applyDamage(towers, 1).result # NoTowersLeft)
    /\ [][(EngineEnemy \/ EngineInput) => pc = "select"]_vars

\* the battle running with the player's King Tower, twice unguarded, left at 10
C31_Witness ==
    /\ pc = "select"
    /\ GuardsDown(state.PlayerTowers)
    /\ KingHP(state.PlayerTowers) = 10
    /\ KingHP(state.EnemyTowers) = 2000
    /\ Len(replay) = 3

\* C32: on each side Guard Tower 2 is below its full HP only if Guard Tower 1
\* is at 0, and the King Tower is below its full HP only if both guard towers
\* are at 0.
C32_TowersFallInOrder ==
    \A towers \in {state.PlayerTowers, state.EnemyTowers} :
        /\ towers[2].HP < towers[2].MaxHP => towers[1].HP = 0
        /\ towers[3].HP < towers[3].MaxHP => (towers[1].HP = 0 /\ towers[2].HP = 0)

\* both sides attacked: the opponent's second guard tower fallen after the
\* first, the player's first guard tower fallen alone
C32_Witness ==
    /\ state.EnemyTowers[1].HP = 0
    /\ state.EnemyTowers[2].HP = 0
    /\ state.EnemyTowers[3].HP = 2000
    /\ state.PlayerTowers[1].HP = 0
    /\ state.PlayerTowers[2].HP = 1000

\* the entries of a log that record an attack on the given side's towers
AttacksIn(log, entry) == Cardinality({i \in 1..Len(log) : log[i] = entry})

\* C33 (as claimed): no tower's HP ever increases, an attack lowers one tower
\* only, and every step that changes a tower's HP appends exactly one log
\* entry.
C33_OneEntryPerHit ==
    [][/\ \A i \in 1..3 :
            /\ state'.PlayerTowers[i].HP <= state.PlayerTowers[i].HP
            /\ state'.EnemyTowers[i].HP <= state.EnemyTowers[i].HP
       /\ (state'.PlayerTowers # state.PlayerTowers
             \/ state'.EnemyTowers # state.EnemyTowers) =>
             /\ Len(replay') = Len(replay) + 1
             /\ SubSeq(replay', 1, Len(replay)) = replay]_vars

\* C33 (amended): no tower's HP ever increases; an attack lowers one tower
\* only, what exceeds that tower's HP is not passed on to the next; a King
\* Tower at 0 has at least three resolved attacks on its side in the log; and
\* a step that changes a tower's HP appends exactly one attack entry, followed
\* in the same step by the terminal entry when the attack ends the battle.
C33_DamageNotCarriedOver ==
    /\ [][/\ \A i \in 1..3 :
                /\ state'.PlayerTowers[i].HP <= state.PlayerTowers[i].HP
                /\ state'.EnemyTowers[i].HP <= state.EnemyTowers[i].HP
          /\ Cardinality({i \in 1..3 : state'.PlayerTowers[i] # state.PlayerTowers[i]}
                           \cup {i + 3 : i \in {j \in 1..3 :
                                     state'.EnemyTowers[j] # state.EnemyTowers[j]}}) <= 1
          /\ (state'.PlayerTowers # state.PlayerTowers
                \/ state'.EnemyTowers # state.EnemyTowers) =>
                /\ Len(replay') \in {Len(replay) + 1, Len(replay) + 2}
                /\ SubSeq(replay', 1, Len(replay)) = replay
                /\ replay'[Len(replay) + 1] =
                      (IF state'.PlayerTowers # state.PlayerTowers
                       THEN "Opponent used" ELSE "Player used")
                /\ Len(replay') = Len(replay) + 2 <=> pc' = "returned"
                /\ Len(replay') = Len(replay) + 2 =>
                      replay'[Len(replay) + 2] \in TerminalEntries]_vars
    /\ [](/\ KingHP(state.PlayerTowers) = 0 => AttacksIn(replay, "Opponent used") >= 3
          /\ KingHP(state.EnemyTowers) = 0 => AttacksIn(replay, "Player used") >= 3
          /\ KingHP(state.PlayerTowers) < 2000 => AttacksIn(replay, "Opponent used") >= 3
          /\ state.EnemyTowers[2].HP < 1000 => AttacksIn(replay, "Player used") >= 2)

\* 2000-damage plays against 1000-HP guard towers: the King Tower untouched
\* after two of them, and fallen at the third, an opponent attack in between
C33_Witness ==
    /\ KingHP(state.EnemyTowers) = 0
    /\ AttacksIn(replay, "Player used") = 3
    /\ AttacksIn(replay, "Opponent used") = 1
    /\ state.PlayerTowers[1].HP = 0
    /\ state.PlayerTowers[2].HP = 1000

\* C34: an event processed after the 3-minute mark still has its own effect
\* and its own win/loss check before the draw check: if it leaves a King
\* Tower at 0 the outcome is PlayerWin or OpponentWin, a surrender yields
\* Surrender, and only an event that falls through with both King Towers
\* standing yields Draw, its changes to tower HP and elixir kept.
C34_DrawCheckedLast ==
    /\ [][(pc = "select" /\ elapsed > DrawLimit) =>
            /\ EngineSurrender =>
                  (outcome' = "Surrender" /\ Last(replay') = "Player surrendered")
            /\ KingHP(state'.EnemyTowers) = 0 =>
                  (outcome' = "PlayerWin" /\ Last(replay') = "Player won the match")
            /\ KingHP(state'.PlayerTowers) = 0 =>
                  (outcome' = "OpponentWin" /\ Last(replay') = "Opponent won the match")
            /\ (state' # state /\ KingHP(state'.EnemyTowers) > 0
                    /\ KingHP(state'.PlayerTowers) > 0) =>
                  (outcome' = "Draw" /\ Last(replay') = "Match ended in a draw")]_vars
    /\ [](outcome = "Draw" =>
            /\ elapsed > DrawLimit
            /\ KingHP(state.PlayerTowers) > 0
            /\ KingHP(state.EnemyTowers) > 0)

\* the opponent's third attack, resolved past the 3-minute mark, took the
\* player's King Tower: the battle is lost, not drawn
C34_Witness ==
    /\ pc = "returned"
    /\ elapsed > DrawLimit
    /\ outcome = "OpponentWin"
    /\ KingHP(state.PlayerTowers) = 0
    /\ state.EnemyElixir < StartElixir

\* C35: the line "0" reaches the engine first as an input event, rejected with
\* no change of state or log, the goroutine then offering the surrender; the
\* surrender is received only after that. While the surrender is on offer no
\* card play of the player is resolved, ticks can still be processed, and the
\* offer ends only by the engine taking it and returning Surrender; a battle
\* that returned with the offer still pending ended as OpponentWin or Draw,
\* and the goroutine stays blocked on the offer.
C35_SurrenderAfterRejectedInput ==
    /\ [][(InputTaken /\ reader.input = <<"0">>) =>
            /\ EngineInput
            /\ InvalidChoice(reader.input)
            /\ UNCHANGED << state, replay, pc, outcome >>
            /\ reader' = [pc |-> "sendQuit", input |-> <<"0">>]]_vars
    /\ [][reader'.pc = "sendQuit" =>
            (reader.pc = "sendQuit"
                \/ (reader.pc = "sendInput" /\ reader.input = <<"0">>))]_vars
    /\ [][EngineSurrender => reader.pc = "sendQuit"]_vars
    /\ [][reader.pc = "sendQuit" =>
            /\ ~EngineInput
            /\ state'.EnemyTowers = state.EnemyTowers
            /\ state'.PlayerElixir >= state.PlayerElixir
            /\ \A i \in (Len(replay) + 1)..Len(replay') :
                  replay'[i] \notin {"Player used", "Player won the match"}
            /\ reader' # reader =>
                  (EngineSurrender /\ pc' = "returned" /\ outcome' = "Surrender")
            /\ pc = "returned" => reader' = reader]_vars
    /\ []((reader.pc = "sendQuit" /\ pc = "select") =>
            (ENABLED EngineSurrender /\ ENABLED EngineRegen))
    /\ []((reader.pc = "sendQuit" /\ pc = "returned") =>
            outcome \in {"OpponentWin", "Draw"})
    /\ [](outcome = "Surrender" => reader.pc = "done")

\* "0" typed and received as an input, then three attacks of the opponent
\* processed before the surrender was: the battle is lost and the goroutine
\* still offers the surrender
C35_Witness ==
    /\ pc = "returned"
    /\ outcome = "OpponentWin"
    /\ reader = [pc |-> "sendQuit", input |-> <<"0">>]
    /\ state.EnemyTowers = InitTowers

\* C36: both elixir pools hold whole numbers from 0 to 10; a pool grows only
\* by a regeneration tick and then by exactly 1, the player's pool shrinks
\* only by an accepted card play and the opponent's only by an opponent
\* attack. Hence what a side has spent (10 plus what it gained minus what it
\* holds) never exceeds 10 plus the number of regeneration ticks processed.
C36_ElixirOnlyFromRegen ==
    /\ [](/\ state.PlayerElixir \in 0..ElixirCap
          /\ state.EnemyElixir \in 0..ElixirCap)
    /\ [][/\ state'.PlayerElixir > state.PlayerElixir =>
                (EngineRegen /\ state'.PlayerElixir = state.PlayerElixir + 1)
          /\ state'.EnemyElixir > state.EnemyElixir =>
                (EngineRegen /\ state'.EnemyElixir = state.EnemyElixir + 1)
          /\ EngineRegen =>
                /\ state'.PlayerElixir \in {state.PlayerElixir, state.PlayerElixir + 1}
                /\ state'.EnemyElixir \in {state.EnemyElixir, state.EnemyElixir + 1}
          /\ state'.PlayerElixir < state.PlayerElixir =>
                (EngineInput /\ state.PlayerElixir - state'.PlayerElixir
                                   = ChargeFor(reader.input, state))
          /\ state'.EnemyElixir < state.EnemyElixir =>
                (EngineEnemy /\ state.EnemyElixir - state'.EnemyElixir = EnemyCost)]_vars

\* the player has spent 11 elixir (cards of 5, 3 and 3) with one regeneration
\* tick processed, the opponent 3
C36_Witness ==
    /\ state.PlayerElixir = 0
    /\ state.EnemyElixir = 8
    /\ AttacksIn(replay, "Player used") = 3
    /\ AttacksIn(replay, "Opponent used") = 1

\* C37: whenever the opponent tick asserts opponent.(MockPlayer), in test mode
\* with a non-nil opponent, the opponent is a MockPlayer, so the assertion
\* never fails; in live mode the opponent is never asserted, whatever it is,
\* and the player's deck is used.
C37_AssertionNeverFails ==
    /\ [](/\ ~AssertionFails(isTestMode, opponent)
          /\ (isTestMode /\ opponent # NilOpponent) => opponent.kind = "MockPlayer"
          /\ ~isTestMode =>
                /\ ~AssertsMockPlayer(isTestMode, opponent)
                /\ opponent.kind # "MockPlayer"
                /\ EnemyDeck(isTestMode, opponent) = PlayerDeck)
    /\ [][(EngineEnemy /\ state'.PlayerTowers # state.PlayerTowers) =>
            (AssertsMockPlayer(isTestMode, opponent) => opponent.kind = "MockPlayer")]_vars

\* a mock opponent of test mode has attacked from its own deck, the assertion
\* made on that tick
C37_Witness ==
    /\ isTestMode
    /\ AssertsMockPlayer(isTestMode, opponent)
    /\ opponent.kind = "MockPlayer"
    /\ opponent.CurrentDeck = MockDeck
    /\ replay = <<"Opponent used">>
    /\ state.EnemyElixir = 7

\* some entry of the mock players has a tag other than the player's
SomeOtherTag ==
    \E i \in 1..Len(call.mockPlayers) : call.mockPlayers[i].Tag # call.playerTag

\* C38: with more than one mock player the opponent chosen has a tag other
\* than the player's; the loop ends whenever some mock player has another
\* tag, and never ends when every mock player has the player's tag.
C38_SelectionLoop ==
    /\ []((call.done /\ Len(call.mockPlayers) > 1) =>
            /\ call.pick \in 1..Len(call.mockPlayers)
            /\ call.mockPlayers[call.pick].Tag # call.playerTag
            /\ call.out.opponentName = call.mockPlayers[call.pick].Name
            /\ call.out.opponent.kind = "MockPlayer")
    /\ [](SomeOtherTag => <>call.done)
    /\ []((Len(call.mockPlayers) > 1 /\ ~SomeOtherTag) =>
            (~call.done /\ ENABLED LoopDrawSame /\ ~ENABLED LoopDrawOther))

\* the player's tag is carried by two of three entries, and the loop ended on
\* the third
C38_Witness ==
    /\ call.op = "selectLoop"
    /\ call.done
    /\ call.mockPlayers = <<MockMe, MockTwin, MockOther>>
    /\ call.playerTag = "#PLAYER1"
    /\ call.pick = 3
    /\ call.out.opponentName = "Mock"

\* the tag begins with the character '#'
StartsWithHash(tag) == Len(tag) > 0 /\ tag[1] = "#"

\* C39: NormaliseTag returns a tag that starts with '#', returns a tag that
\* already starts with '#' unchanged and any other tag with one '#' put in
\* front, and applied to its own result it returns that result, for every tag
\* including the empty one.
C39_NormaliseTagIdempotent ==
    (call.op = "NormaliseTag" /\ call.done) =>
        /\ StartsWithHash(call.out)
        /\ StartsWithHash(call.tag) => call.out = call.tag
        /\ ~StartsWithHash(call.tag) =>
              (Len(call.out) = Len(call.tag) + 1
                  /\ SubSeq(call.out, 2, Len(call.out)) = call.tag)
        /\ NormaliseTag(call.out) = call.out
        /\ NormaliseTag(NormaliseTag(call.tag)) = NormaliseTag(call.tag)

\* the empty tag normalised to "#", and "#" normalised again to itself
C39_Witness ==
    /\ call.op = "NormaliseTag"
    /\ call.done
    /\ call.tag = <<>>
    /\ call.out = <<"#">>
    /\ NormaliseTag(call.out) = <<"#">>

====
